---- MODULE Spec2Model ----
(***************************************************************************)
(* Session state machine of the Deckster Lab flash-card App component:     *)
(* the React state (index, flipped, missedIds, reviewMode, reviewIndex,    *)
(* the two sentence settings), the two localStorage entries, the effects   *)
(* that run after every render, and the pointer and keyboard handlers.     *)
(*                                                                         *)
(* A stimulus (click, key press, page load) is one step.  The renders it   *)
(* causes are EffectsPass steps: one step commits a render and runs the    *)
(* effects whose dependencies changed; the state updates the effects       *)
(* queue are applied together and cause the next pass.  Stimuli are only   *)
(* taken when no pass is pending (phase = "idle").                         *)
(*                                                                         *)
(* The info dialog flag (infoOpen) is read by no handler or effect of the  *)
(* session and is left out.                                                *)
(***************************************************************************)
EXTENDS Integers, Sequences, FiniteSets, TLC

\* ------------------------------------------------------------------ bounds
\* Largest deck explored (decks of 0..MaxDeck cards).
MaxDeck == 3
\* Longest missedIds list found in storage at start-up.
MaxStoredMissed == 2

\* ---------------------------------------------------------------- the deck
\* Ids of the cards of the deck file, in deck order.
AllIds == <<"card-1", "card-2", "card-3", "card-4", "card-5">>
\* An id persisted by an earlier session whose card has left the deck.
GoneId == "card-9"
\* A falsy list entry (empty string, null, 0) as JSON.parse can return it.
Falsy == ""
\* null / undefined as a card.
NoCard == "none"

DeckOf(n) == SubSeq(AllIds, 1, n)
\* The deck files a first page load is explored with: none, one, many cards.
Decks == {DeckOf(n) : n \in {0, 1, MaxDeck}}

\* ------------------------------------------------------------ JS helpers
\* a % n of JavaScript for n > 0: the result has the sign of a.
JsRem(a, n) == IF a >= 0 THEN a % n ELSE -((-a) % n)

Includes(seq, x) == \E i \in 1..Len(seq) : seq[i] = x

\* cardById.has(id) for the deck d.
cardById(d, id) == Includes(d, id)

SeqsUpTo(S, n) == UNION {[1..k -> S] : k \in 0..n}

\* ------------------------------------------------- values held in storage
\* A JSON number field, or anything Number.isFinite rejects (absent, string,
\* null): t = "other".
Num(k) == [t |-> "num", n |-> k]
NotANumber == [t |-> "other", n |-> 0]
\* A JSON list field, or anything Array.isArray rejects.
List(q) == [t |-> "list", l |-> q]
NotAList == [t |-> "other", l |-> <<>>]
\* reviewMode as stored: a JSON boolean, another truthy value, or absent.
StoredFlags == {"true", "false", "truthy", "undefined"}

\* localStorage.getItem returned null / a string JSON.parse throws on (or
\* parses to null) / a JSON object.
NoFields == [index |-> NotANumber, missedIds |-> NotAList,
             reviewMode |-> "undefined", reviewIndex |-> NotANumber]
Absent == [kind |-> "absent", f |-> NoFields]
Corrupt == [kind |-> "corrupt", f |-> NoFields]
Json(fields) == [kind |-> "json", f |-> fields]

\* Stored positions: negative, zero, inside a deck, at and past the end of
\* the largest deck; stored review positions likewise for the stored list.
StoredNumbers == {Num(k) : k \in {-1, 0, 1, MaxDeck, MaxDeck + 1}}
                   \cup {NotANumber}
StoredReviewNumbers == {Num(k) : k \in {-1, 0, 1, MaxStoredMissed}}
                         \cup {NotANumber}
StoredEntries == {AllIds[1], AllIds[2], GoneId, Falsy}
StoredLists == {List(q) : q \in SeqsUpTo(StoredEntries, MaxStoredMissed)}
                 \cup {NotAList}
StoredProgress ==
  {Absent, Corrupt} \cup
  {Json([index |-> i, missedIds |-> m, reviewMode |-> r, reviewIndex |-> j]) :
     i \in StoredNumbers, m \in StoredLists, r \in StoredFlags,
     j \in StoredReviewNumbers}

NoSettings == [showGermanSentence |-> "undefined",
               showEnglishSentence |-> "undefined"]
SettingsAbsent == [kind |-> "absent", f |-> NoSettings]
SettingsCorrupt == [kind |-> "corrupt", f |-> NoSettings]
\* A settings field as stored: a JSON boolean, a falsy value that is not a
\* boolean (0, null, ""), or missing.
StoredSettingFlags == {"true", "false", "falsy", "undefined"}
StoredSettings ==
  {SettingsAbsent, SettingsCorrupt} \cup
  {[kind |-> "json",
    f |-> [showGermanSentence |-> g, showEnglishSentence |-> e]] :
     g \in StoredSettingFlags, e \in StoredSettingFlags}

\* ------------------------------------------------------- normalizeDeck
\* Longest raw deck the normalizer is explored with.
MaxRawDeck == 2

\* A string is the sequence of its characters; an optional string field of
\* a raw card is absent (undefined / null) or holds a string.
Undefined == [has |-> FALSE]
Str(text) == [has |-> TRUE, text |-> text]

IsSpace(c) == c = " "
RECURSIVE trimStart(_)
trimStart(s) ==
  IF s # <<>> /\ IsSpace(Head(s)) THEN trimStart(Tail(s)) ELSE s
RECURSIVE trimEnd(_)
trimEnd(s) ==
  IF s # <<>> /\ IsSpace(s[Len(s)])
    THEN trimEnd(SubSeq(s, 1, Len(s) - 1)) ELSE s
\* String.prototype.trim
trim(s) == trimEnd(trimStart(s))

\* field?.trim(): undefined when the field is absent.
OptTrim(field) == IF field.has THEN Str(trim(field.text)) ELSE Undefined
\* a || b: undefined and the empty string are falsy.
Truthy(v) == v.has /\ v.text # <<>>
Or(a, b) == IF Truthy(a) THEN a ELSE b

\* Decimal digits of n > 0, as the template literal prints index + 1.
DigitChars == <<"0", "1", "2", "3", "4", "5", "6", "7", "8", "9">>
RECURSIVE Decimal(_)
Decimal(n) ==
  IF n < 10 THEN <<DigitChars[n + 1]>>
  ELSE Decimal(n \div 10) \o <<DigitChars[(n % 10) + 1]>>
\* `card-${index + 1}` for the 0-based index.
CardTemplate(i) == <<"c", "a", "r", "d", "-">> \o Decimal(i + 1)

\* The callback of raw.cards.map in normalizeDeck, for the 0-based index i
\* (the text fields and audio_url take no part in the ids).
normalizeCard(card, i) ==
  LET id == Or(Or(OptTrim(card.id), OptTrim(card.note_id)),
               Str(CardTemplate(i)))
  IN  [id |-> id.text, note_id |-> Or(OptTrim(card.note_id), id).text]

normalizeDeck(raw) == [k \in 1..Len(raw) |-> normalizeCard(raw[k], k - 1)]

\* Strings a raw card carries in id / note_id: empty, blank, plain, padded,
\* and of the form card-k.
RawStrings ==
  {<<>>, <<" ">>, <<"a">>, <<" ", "a", " ">>, CardTemplate(0), CardTemplate(1)}
RawFields == {Undefined} \cup {Str(s) : s \in RawStrings}
RawCards == [id : RawFields, note_id : RawFields]
RawDecks == UNION {[1..n -> RawCards] : n \in 0..MaxRawDeck}

\* ------------------------------------------------------------------ state
VARIABLES
  deck,            \* normalized deck of this page load: sequence of card ids
  index,           \* useState index
  flipped,         \* useState flipped
  missedIds,       \* useState missedIds (= reviewQueue)
  reviewMode,      \* useState reviewMode
  reviewIndex,     \* useState reviewIndex
  showGermanSentence,
  showEnglishSentence,
  progressStore,   \* localStorage[PROGRESS_KEY]
  settingsStore,   \* localStorage[SETTINGS_KEY]
  phase,           \* "mount": first render, effects not yet run;
                   \* "update": a re-render is pending; "idle": settled
  missedFresh,     \* the pending render holds a new missedIds array
  rendered,        \* dependency values of the last committed render
  keyClosure,      \* what the registered keydown listener closed over
  last,            \* history: the last stimulus and the state it met
  rawCards,        \* deckData.cards, the input of normalizeDeck
  cards,           \* the cards normalizeDeck returned, <<>> before it ran
  streak           \* history: the run of consecutive known answers

sessionVars == <<index, flipped, missedIds, reviewMode, reviewIndex>>
settingVars == <<showGermanSentence, showEnglishSentence>>
vars == <<deck, index, flipped, missedIds, reviewMode, reviewIndex,
          showGermanSentence, showEnglishSentence, progressStore,
          settingsStore, phase, missedFresh, rendered, keyClosure, last,
          rawCards, cards, streak>>
normVars == <<rawCards, cards>>

\* The Session State as one record.
State == [index |-> index, missedIds |-> missedIds, reviewMode |-> reviewMode,
          reviewIndex |-> reviewIndex, flipped |-> flipped]

DefaultProgress == [index |-> 0, missedIds |-> <<>>, reviewMode |-> FALSE,
                    reviewIndex |-> 0]

\* ------------------------------------------------------------ persistence
\* Variant of loadProgress that accepts reviewMode only as the boolean true.
loadProgressStrictFlag(store) ==
  IF store.kind # "json" THEN DefaultProgress
  ELSE [index |-> IF store.f.index.t = "num" THEN store.f.index.n ELSE 0,
        missedIds |-> IF store.f.missedIds.t = "list"
                        THEN SelectSeq(store.f.missedIds.l,
                                       LAMBDA e : e # Falsy)
                        ELSE <<>>,
        reviewMode |-> store.f.reviewMode = "true",
        reviewIndex |-> IF store.f.reviewIndex.t = "num"
                          THEN store.f.reviewIndex.n ELSE 0]

\* loadProgress (lines 66-83).
loadProgress(store) ==
  IF store.kind # "json" THEN DefaultProgress
  ELSE [index |-> IF store.f.index.t = "num" THEN store.f.index.n ELSE 0,
        missedIds |-> IF store.f.missedIds.t = "list"
                        THEN SelectSeq(store.f.missedIds.l,
                                       LAMBDA e : e # Falsy)
                        ELSE <<>>,
        reviewMode |-> store.f.reviewMode \in {"true", "truthy"},
        reviewIndex |-> IF store.f.reviewIndex.t = "num"
                          THEN store.f.reviewIndex.n ELSE 0]

\* Variant of loadSettings that shows a sentence only for a stored true.
loadSettingsStrict(store) ==
  IF store.kind # "json"
    THEN [showGermanSentence |-> TRUE, showEnglishSentence |-> TRUE]
    ELSE [showGermanSentence |-> store.f.showGermanSentence = "true",
          showEnglishSentence |-> store.f.showEnglishSentence = "true"]

loadSettings(store) ==
  IF store.kind # "json"
    THEN [showGermanSentence |-> TRUE, showEnglishSentence |-> TRUE]
    ELSE [showGermanSentence |-> store.f.showGermanSentence # "false",
          showEnglishSentence |-> store.f.showEnglishSentence # "false"]

\* Variant of progressPayload that writes reviewMode as false whatever the
\* render holds.
progressPayloadDropsReview(s) ==
  Json([index |-> Num(s.index), missedIds |-> List(s.missedIds),
        reviewMode |-> "false", reviewIndex |-> Num(s.reviewIndex)])

\* Variant of progressPayload that also writes flipped.
progressPayloadWithFlipped(s) ==
  Json([index |-> Num(s.index), missedIds |-> List(s.missedIds),
        reviewMode |-> IF s.reviewMode THEN "true" ELSE "false",
        reviewIndex |-> Num(s.reviewIndex),
        flipped |-> IF s.flipped THEN "true" ELSE "false"])

\* JSON.stringify of the progress payload of a render.
progressPayload(s) ==
  Json([index |-> Num(s.index), missedIds |-> List(s.missedIds),
        reviewMode |-> IF s.reviewMode THEN "true" ELSE "false",
        reviewIndex |-> Num(s.reviewIndex)])

settingsPayload(g, e) ==
  [kind |-> "json",
   f |-> [showGermanSentence |-> IF g THEN "true" ELSE "false",
          showEnglishSentence |-> IF e THEN "true" ELSE "false"]]

\* ------------------------------------------------------------ derivations
currentCard(d, s) ==
  IF Len(d) = 0 THEN NoCard
  ELSE IF s.reviewMode /\ Len(s.missedIds) > 0
    THEN LET i == JsRem(s.reviewIndex, Len(s.missedIds))
             targetId == IF i >= 0 THEN s.missedIds[i + 1] ELSE NoCard
         IN  IF cardById(d, targetId) THEN targetId ELSE NoCard
    ELSE LET i == JsRem(s.index, Len(d))
         IN  IF i >= 0 THEN d[i + 1] ELSE NoCard

\* What the handlers created by the render of state s close over.
Closure(d, s) == [card |-> currentCard(d, s), reviewMode |-> s.reviewMode,
                  queueLen |-> Len(s.missedIds)]

Deps(d, s, g, e) == [index |-> s.index, reviewMode |-> s.reviewMode,
                     reviewIndex |-> s.reviewIndex,
                     queueLen |-> Len(s.missedIds),
                     card |-> currentCard(d, s),
                     showGermanSentence |-> g, showEnglishSentence |-> e]

\* ---------------------------------------------------------------- effects
\* Variant of pruneEffect that filters nothing.
pruneKeepsAll(d, prev) == prev

\* The updater of the prune effect: prev.filter(id => cardById.has(id)).
pruneEffect(d, prev) == SelectSeq(prev, LAMBDA id : cardById(d, id))

\* The prune updater returns a new array only when it dropped something.
pruneNewArray(d, prev) == Len(pruneEffect(d, prev)) # Len(prev)

\* Variant of reconcileEffect without the empty-queue branch.
reconcileKeepsEmptyReview(s) ==
  IF ~s.reviewMode THEN s
  ELSE IF s.reviewIndex >= Len(s.missedIds) THEN [s EXCEPT !.reviewIndex = 0]
  ELSE s

\* The review reconcile effect, on the values of the render s.
reconcileEffect(s) ==
  IF ~s.reviewMode THEN s
  ELSE IF Len(s.missedIds) = 0
    THEN [s EXCEPT !.reviewMode = FALSE, !.reviewIndex = 0]
  ELSE IF s.reviewIndex >= Len(s.missedIds)
    THEN [s EXCEPT !.reviewIndex = 0]
  ELSE s

\* Variant of clampEffect that clamps to the last card instead of the first.
clampToLast(d, s) ==
  LET maxIndex == IF Len(d) - 1 > 0 THEN Len(d) - 1 ELSE 0
  IN  IF s.index > maxIndex THEN [s EXCEPT !.index = maxIndex] ELSE s

\* The index clamp effect, on the values of the render s.
clampEffect(d, s) ==
  LET maxIndex == IF Len(d) - 1 > 0 THEN Len(d) - 1 ELSE 0
  IN  IF s.index > maxIndex THEN [s EXCEPT !.index = 0] ELSE s

\* --------------------------------------------------------------- handlers
\* Each handler is a function of the closure cl of the render that created
\* it and of the state s its functional updaters are applied to.

\* Variant of handleAdvance whose review branch does not wrap.
handleAdvanceNoWrap(d, cl, s) ==
  IF Len(d) = 0 THEN s
  ELSE IF cl.reviewMode
    THEN IF cl.queueLen = 0 THEN s
         ELSE [s EXCEPT !.reviewIndex = @ + 1, !.flipped = FALSE]
    ELSE [s EXCEPT !.index = JsRem(@ + 1, Len(d)), !.flipped = FALSE]

\* handleAdvance (lines 168-177).
handleAdvance(d, cl, s) ==
  IF Len(d) = 0 THEN s
  ELSE IF cl.reviewMode
    THEN IF cl.queueLen = 0 THEN s
         ELSE [s EXCEPT !.reviewIndex = JsRem(@ + 1, cl.queueLen),
                        !.flipped = FALSE]
    ELSE [s EXCEPT !.index = JsRem(@ + 1, Len(d)), !.flipped = FALSE]

\* Variant of answerMissed whose known branch filters with === for !==.
answerMissedKeepsOnlyCard(card, known, prev) ==
  IF known THEN SelectSeq(prev, LAMBDA id : id = card)
  ELSE IF Includes(prev, card) THEN prev
  ELSE Append(prev, card)

\* Variant of answerMissed without the includes test.
answerMissedAlwaysAppends(card, known, prev) ==
  IF known THEN SelectSeq(prev, LAMBDA id : id # card)
  ELSE Append(prev, card)

\* The setMissedIds updater of handleAnswer.
answerMissed(card, known, prev) ==
  IF known THEN SelectSeq(prev, LAMBDA id : id # card)
  ELSE IF Includes(prev, card) THEN prev
  ELSE Append(prev, card)

\* filter and the spread build a new array; "return prev" does not.
answerNewArray(cl, known, s) ==
  cl.card # NoCard /\ (known \/ ~Includes(s.missedIds, cl.card))

handleAnswer(d, cl, known, s) ==
  IF cl.card = NoCard THEN s
  ELSE handleAdvance(d, cl,
         [s EXCEPT !.missedIds = answerMissed(cl.card, known, @)])

\* Variant of handleFlip without the early return on a missing card.
handleFlipAnyCard(cl, s) == [s EXCEPT !.flipped = ~@]

handleFlip(cl, s) ==
  IF cl.card = NoCard THEN s ELSE [s EXCEPT !.flipped = ~@]

\* Cards of the deck file that carry an audio_url.
hasAudio(card) == card \notin {NoCard, AllIds[2]}

\* The card whose audio playSound starts, NoCard when it returns early.
playSound(cl) == IF hasAudio(cl.card) THEN cl.card ELSE NoCard

\* Variant of startReview without setReviewIndex(0).
startReviewKeepsPosition(s) ==
  IF Len(s.missedIds) = 0 THEN s
  ELSE [s EXCEPT !.reviewMode = TRUE, !.flipped = FALSE]

startReview(s) ==
  IF Len(s.missedIds) = 0 THEN s
  ELSE [s EXCEPT !.reviewIndex = 0, !.reviewMode = TRUE, !.flipped = FALSE]

exitReview(s) == [s EXCEPT !.reviewMode = FALSE]

resetProgress(s) ==
  [index |-> 0, missedIds |-> <<>>, reviewMode |-> FALSE, reviewIndex |-> 0,
   flipped |-> FALSE]

\* Key presses the listener distinguishes: event.code / event.key.
ArrowDown == [code |-> "ArrowDown", key |-> "ArrowDown"]
ArrowLeft == [code |-> "ArrowLeft", key |-> "ArrowLeft"]
ArrowRight == [code |-> "ArrowRight", key |-> "ArrowRight"]
ArrowUp == [code |-> "ArrowUp", key |-> "ArrowUp"]
Digit1 == [code |-> "Digit1", key |-> "1"]
Digit2 == [code |-> "Digit2", key |-> "2"]
KeyEvents == {ArrowDown, ArrowLeft, ArrowRight, ArrowUp, Digit1, Digit2}

\* unknownShortcut / knownShortcut and the digit keys.
IsUnknownKey(ev) == ev.code = "ArrowLeft" \/ ev.key = "1"
IsKnownKey(ev) == ev.code = "ArrowRight" \/ ev.key = "2"
IsAnswerKey(ev) == IsUnknownKey(ev) \/ IsKnownKey(ev)

\* handleKey of the listener whose closure is cl; ignored = event.repeat or
\* a typing target.
handleKey(d, cl, ev, ignored, s) ==
  IF ignored \/ cl.card = NoCard THEN s
  ELSE LET s1 == IF ev.code = "ArrowDown" THEN handleFlip(cl, s) ELSE s
           s2 == IF ev.code = "ArrowLeft"
                   THEN handleAnswer(d, cl, FALSE, s1) ELSE s1
           s3 == IF ev.code = "ArrowRight"
                   THEN handleAnswer(d, cl, TRUE, s2) ELSE s2
           s4 == IF ev.key = "1" THEN handleAnswer(d, cl, FALSE, s3) ELSE s3
       IN  IF ev.key = "2" THEN handleAnswer(d, cl, TRUE, s4) ELSE s4

keyNewArray(cl, ev, ignored, s) ==
  /\ ~ignored
  /\ \/ IsKnownKey(ev) /\ answerNewArray(cl, TRUE, s)
     \/ IsUnknownKey(ev) /\ answerNewArray(cl, FALSE, s)

\* ---------------------------------------------------------------- actions
\* The record of a stimulus: its name, its known argument (FALSE when it
\* has none), the state, card, deck and sentence settings it met, the audio
\* it started, and the number of effect passes run since.
Stim(op, known, sound) ==
  [op |-> op, known |-> known, pre |-> State, card |-> currentCard(deck, State),
   deck |-> deck, shown |-> <<showGermanSentence, showEnglishSentence>>,
   sound |-> sound, passes |-> 0]

\* The run of known answers is not recorded / is recorded and empty.
NoStreak == [on |-> FALSE, queue |-> <<>>, shown |-> <<>>]
Idle == [on |-> TRUE, queue |-> <<>>, shown |-> <<>>]

\* The run after the stimulus rec: a known answer extends a run that has
\* not yet had as many answers as the queue it started with had entries, or
\* starts one in review mode with a non-empty queue (recording that queue
\* and the card each answer met); any other stimulus ends the run.
StreakAfter(rec) ==
  IF ~streak.on THEN streak
  ELSE IF rec.op \in {"clickAnswer", "keyAnswer"} /\ rec.known
    THEN IF streak.shown # <<>> /\ Len(streak.shown) < Len(streak.queue)
           THEN [streak EXCEPT !.shown = Append(@, rec.card)]
         ELSE IF rec.pre.reviewMode /\ Len(rec.pre.missedIds) >= 1
           THEN [on |-> TRUE, queue |-> rec.pre.missedIds,
                 shown |-> <<rec.card>>]
         ELSE Idle
  ELSE Idle

\* The handlers of the settled render close over the current state.
Fresh == Closure(deck, State)

\* A handler ran and left the state s2; fresh: it built a new missedIds.
Handled(s2, fresh, rec) ==
  /\ index' = s2.index
  /\ missedIds' = s2.missedIds
  /\ reviewMode' = s2.reviewMode
  /\ reviewIndex' = s2.reviewIndex
  /\ flipped' = s2.flipped
  /\ missedFresh' = fresh
  /\ phase' = IF s2 # State \/ fresh THEN "update" ELSE "idle"
  /\ last' = rec
  /\ streak' = StreakAfter(rec)
  /\ UNCHANGED <<deck, showGermanSentence, showEnglishSentence,
                 settingsStore, rendered, keyClosure, normVars>>

\* Commit the pending render and run the effects whose dependencies changed
\* (all of them on mount), in source order.
EffectsPass ==
  /\ phase \in {"mount", "update"}
  /\ LET s == State
         mount == phase = "mount"
         now == Deps(deck, s, showGermanSentence, showEnglishSentence)
         runReconcile == mount \/ now.reviewMode # rendered.reviewMode
                           \/ now.queueLen # rendered.queueLen
                           \/ now.reviewIndex # rendered.reviewIndex
         runClamp == mount \/ now.index # rendered.index
         runPersist == mount \/ now.index # rendered.index \/ missedFresh
                         \/ now.reviewMode # rendered.reviewMode
                         \/ now.reviewIndex # rendered.reviewIndex
         runSettings ==
           mount \/ now.showGermanSentence # rendered.showGermanSentence
                 \/ now.showEnglishSentence # rendered.showEnglishSentence
         runKeydown == mount \/ now.card # rendered.card
         rec == IF runReconcile THEN reconcileEffect(s) ELSE s
         clamped == IF runClamp THEN clampEffect(deck, s) ELSE s
         fresh == mount /\ pruneNewArray(deck, s.missedIds)
     IN  /\ missedIds' = IF mount THEN pruneEffect(deck, s.missedIds)
                         ELSE s.missedIds
         /\ reviewMode' = rec.reviewMode
         /\ reviewIndex' = rec.reviewIndex
         /\ index' = clamped.index
         /\ progressStore' = IF runPersist THEN progressPayload(s)
                             ELSE progressStore
         /\ settingsStore' =
              IF runSettings
                THEN settingsPayload(showGermanSentence, showEnglishSentence)
                ELSE settingsStore
         /\ keyClosure' = IF runKeydown THEN Closure(deck, s) ELSE keyClosure
         /\ rendered' = now
         /\ missedFresh' = fresh
         /\ phase' = IF fresh \/ rec # s \/ clamped # s THEN "update"
                     ELSE "idle"
         /\ last' = [last EXCEPT !.passes = @ + 1]
  /\ UNCHANGED <<deck, flipped, showGermanSentence, showEnglishSentence,
                 normVars, streak>>

\* "Don't know" / "Got it" buttons (disabled without a current card).
ClickAnswer(known) ==
  /\ phase = "idle"
  /\ Fresh.card # NoCard
  /\ Handled(handleAnswer(deck, Fresh, known, State),
             answerNewArray(Fresh, known, State),
             Stim("clickAnswer", known, NoCard))
  /\ UNCHANGED progressStore

\* "Next card" button (rendered on the front face of a current card).
ClickAdvance ==
  /\ phase = "idle"
  /\ ~flipped /\ Fresh.card # NoCard
  /\ Handled(handleAdvance(deck, Fresh, State), FALSE,
             Stim("clickAdvance", FALSE, NoCard))
  /\ UNCHANGED progressStore

\* "Flip card" button (disabled without a current card).
ClickFlip ==
  /\ phase = "idle"
  /\ Fresh.card # NoCard
  /\ Handled(handleFlip(Fresh, State), FALSE, Stim("clickFlip", FALSE, NoCard))
  /\ UNCHANGED progressStore

\* "Play sound" button (disabled without an audio_url).
ClickSound ==
  /\ phase = "idle"
  /\ hasAudio(Fresh.card)
  /\ Handled(State, FALSE, Stim("clickSound", FALSE, playSound(Fresh)))
  /\ UNCHANGED progressStore

\* A keydown event reaches the registered listener.
KeyDown(ev, ignored) ==
  /\ phase = "idle"
  /\ Handled(handleKey(deck, keyClosure, ev, ignored, State),
             keyNewArray(keyClosure, ev, ignored, State),
             Stim(IF ignored THEN "keyIgnored"
                  ELSE IF IsAnswerKey(ev) THEN "keyAnswer"
                  ELSE IF ev = ArrowDown THEN "keyFlip" ELSE "keySound",
                  ~ignored /\ IsKnownKey(ev),
                  IF ~ignored /\ ev = ArrowUp THEN playSound(keyClosure)
                  ELSE NoCard))
  /\ UNCHANGED progressStore

\* "Review missed cards" (rendered outside review mode with missed cards).
StartReview ==
  /\ phase = "idle"
  /\ Len(missedIds) > 0 /\ ~reviewMode
  /\ Handled(startReview(State), FALSE, Stim("startReview", FALSE, NoCard))
  /\ UNCHANGED progressStore

\* "Exit review" (rendered in review mode with missed cards).
ExitReview ==
  /\ phase = "idle"
  /\ Len(missedIds) > 0 /\ reviewMode
  /\ Handled(exitReview(State), FALSE, Stim("exitReview", FALSE, NoCard))
  /\ UNCHANGED progressStore

\* The reset button; confirmed = the answer to window.confirm.
ResetProgress(confirmed) ==
  /\ phase = "idle"
  /\ IF confirmed
       THEN /\ Handled(resetProgress(State), TRUE,
                       Stim("resetProgress", FALSE, NoCard))
            /\ progressStore' = Absent
       ELSE /\ Handled(State, FALSE, Stim("resetDeclined", FALSE, NoCard))
            /\ UNCHANGED progressStore

\* The two sentence check boxes: onChange carries the toggled value.
SetShowGerman ==
  /\ phase = "idle"
  /\ showGermanSentence' = ~showGermanSentence
  /\ phase' = "update"
  /\ last' = Stim("setShowGerman", FALSE, NoCard)
  /\ UNCHANGED <<deck, sessionVars, showEnglishSentence, progressStore,
                 settingsStore, missedFresh, rendered, keyClosure,
                 normVars>>
  /\ streak' = StreakAfter(last')

SetShowEnglish ==
  /\ phase = "idle"
  /\ showEnglishSentence' = ~showEnglishSentence
  /\ phase' = "update"
  /\ last' = Stim("setShowEnglish", FALSE, NoCard)
  /\ UNCHANGED <<deck, sessionVars, showGermanSentence, progressStore,
                 settingsStore, missedFresh, rendered, keyClosure,
                 normVars>>
  /\ streak' = StreakAfter(last')

\* The state of the first render of a page load with deck d: the useState
\* initializers read storage; no listener is registered yet.
Mounted(d, rec) ==
  LET p == loadProgress(progressStore')
      q == loadSettings(settingsStore')
      s == [index |-> p.index, missedIds |-> p.missedIds,
            reviewMode |-> p.reviewMode, reviewIndex |-> p.reviewIndex,
            flipped |-> FALSE]
  IN  /\ deck' = d
      /\ index' = s.index
      /\ missedIds' = s.missedIds
      /\ reviewMode' = s.reviewMode
      /\ reviewIndex' = s.reviewIndex
      /\ flipped' = FALSE
      /\ showGermanSentence' = q.showGermanSentence
      /\ showEnglishSentence' = q.showEnglishSentence
      /\ phase' = "mount"
      /\ missedFresh' = FALSE
      /\ rendered' = Deps(d, s, q.showGermanSentence, q.showEnglishSentence)
      /\ keyClosure' = [card |-> NoCard, reviewMode |-> FALSE, queueLen |-> 0]
      /\ last' = rec
      /\ streak' = StreakAfter(rec)
      /\ UNCHANGED normVars

\* The deck file at the next page load: as it is, or with its last card
\* removed.
EditedDecks(d) == {d} \cup {DeckOf(Len(d) - 1) : x \in {1} \cap 1..Len(d)}

\* The page is loaded again, possibly with an edited deck file.
Reload(d) ==
  /\ phase = "idle"
  /\ UNCHANGED <<progressStore, settingsStore>>
  /\ Mounted(d, Stim("reload", FALSE, NoCard))

\* The first render of the first page load over what storage holds.
Booted ==
  LET p == loadProgress(progressStore)
      q == loadSettings(settingsStore)
      s == [index |-> p.index, missedIds |-> p.missedIds,
            reviewMode |-> p.reviewMode, reviewIndex |-> p.reviewIndex,
            flipped |-> FALSE]
  IN  /\ index = s.index
      /\ missedIds = s.missedIds
      /\ reviewMode = s.reviewMode
      /\ reviewIndex = s.reviewIndex
      /\ flipped = FALSE
      /\ showGermanSentence = q.showGermanSentence
      /\ showEnglishSentence = q.showEnglishSentence
      /\ phase = "mount"
      /\ missedFresh = FALSE
      /\ rendered = Deps(deck, s, q.showGermanSentence, q.showEnglishSentence)
      /\ keyClosure = [card |-> NoCard, reviewMode |-> FALSE, queueLen |-> 0]
      /\ last = [op |-> "init", known |-> FALSE, pre |-> s,
                 card |-> currentCard(deck, s), deck |-> deck,
                 shown |-> <<q.showGermanSentence, q.showEnglishSentence>>,
                 sound |-> NoCard, passes |-> 0]

\* The session specifications take the normalized deck as given (deck) and
\* leave the variables of the normalizer alone; NormSpec explores it.
NotNormalizing == rawCards = <<>> /\ cards = <<>>

\* They do not record runs of known answers either; ReviewSpec does.
NotRecording == streak = NoStreak

\* The session over any persisted progress entry.  The sentence settings
\* are read and written by no session handler or effect (and the other way
\* round), so this specification starts them from an empty settings entry
\* and leaves the two check boxes alone; SettingsSpec explores them.
Init ==
  /\ progressStore \in StoredProgress
  /\ settingsStore = SettingsAbsent
  /\ deck \in Decks
  /\ NotNormalizing
  /\ NotRecording
  /\ Booted

Next ==
  \/ EffectsPass
  \/ \E known \in BOOLEAN : ClickAnswer(known)
  \/ ClickAdvance
  \/ ClickFlip
  \/ ClickSound
  \/ \E ev \in KeyEvents : KeyDown(ev, FALSE)
  \/ KeyDown(ArrowRight, TRUE)
  \/ StartReview
  \/ ExitReview
  \/ \E confirmed \in BOOLEAN : ResetProgress(confirmed)
  \/ \E d \in EditedDecks(deck) : Reload(d)

Spec == Init /\ [][Next]_vars

\* A first visit: nothing is persisted yet.
FreshInit ==
  /\ progressStore = Absent
  /\ settingsStore = SettingsAbsent
  /\ deck \in Decks
  /\ NotNormalizing
  /\ NotRecording
  /\ Booted

FreshSpec == FreshInit /\ [][Next]_vars

\* The sentence settings over any persisted settings entry, with the session
\* started from an empty progress entry on a deck of no or two cards.
SettingsDecks == {DeckOf(0), DeckOf(2)}

SettingsInit ==
  /\ progressStore = Absent
  /\ settingsStore \in StoredSettings
  /\ deck \in SettingsDecks
  /\ NotNormalizing
  /\ NotRecording
  /\ Booted

SettingsNext == Next \/ SetShowGerman \/ SetShowEnglish

SettingsSpec == SettingsInit /\ [][SettingsNext]_vars

\* normalizeDeck(deckData) of the first render.
Normalize ==
  /\ rawCards # <<>> /\ cards = <<>>
  /\ cards' = normalizeDeck(rawCards)
  /\ UNCHANGED <<deck, sessionVars, settingVars, progressStore, settingsStore,
                 phase, missedFresh, rendered, keyClosure, last, rawCards,
                 streak>>

\* The normalizer over every raw deck of up to MaxRawDeck cards; the session
\* has not started.
NormInit ==
  /\ rawCards \in RawDecks
  /\ cards = <<>>
  /\ progressStore = Absent
  /\ settingsStore = SettingsAbsent
  /\ deck = <<>>
  /\ NotRecording
  /\ Booted

NormNext == Normalize

NormSpec == NormInit /\ [][NormNext]_vars

\* The session over any persisted progress entry, recording the runs of
\* known answers.
ReviewInit ==
  /\ progressStore \in StoredProgress
  /\ settingsStore = SettingsAbsent
  /\ deck \in Decks
  /\ NotNormalizing
  /\ streak = Idle
  /\ Booted

ReviewSpec == ReviewInit /\ [][Next]_vars

\* The same over a first visit.
FreshReviewInit ==
  /\ progressStore = Absent
  /\ settingsStore = SettingsAbsent
  /\ deck \in Decks
  /\ NotNormalizing
  /\ streak = Idle
  /\ Booted

FreshReviewSpec == FreshReviewInit /\ [][Next]_vars

\* ------------------------------------------------- vocabulary of the claims
Settled == phase = "idle"

\* The state a handler left, before any effect ran.
JustHandled(ops) == last.op \in ops /\ last.passes = 0

\* The effects that followed a stimulus have all run.
SettledAfter(ops) == last.op \in ops /\ phase = "idle"

AnswerOps == {"clickAnswer", "keyAnswer"}
LoadOps == {"init", "reload"}

CardNow == currentCard(deck, State)

DefaultState == [index |-> 0, missedIds |-> <<>>, reviewMode |-> FALSE,
                 reviewIndex |-> 0, flipped |-> FALSE]

RECURSIVE Without(_, _)
\* seq with every entry equal to x taken out, the others in order.
Without(seq, x) ==
  IF seq = <<>> THEN <<>>
  ELSE IF Head(seq) = x THEN Without(Tail(seq), x)
  ELSE <<Head(seq)>> \o Without(Tail(seq), x)

RECURSIVE KeepIn(_, _)
\* seq with the entries outside the set S taken out, the others in order.
KeepIn(seq, S) ==
  IF seq = <<>> THEN <<>>
  ELSE IF Head(seq) \in S THEN <<Head(seq)>> \o KeepIn(Tail(seq), S)
  ELSE KeepIn(Tail(seq), S)

Count(seq, x) == Cardinality({i \in 1..Len(seq) : seq[i] = x})
IdsOf(d) == {d[i] : i \in 1..Len(d)}

\* ------------------------------------------------------------------ C1
\* C1: after a confirmed ResetProgress from a non-default state and the
\* effects it triggers, position = 0, missed is empty, reviewMode is false,
\* reviewPosition = 0, flipped is false and the progress key is absent from
\* storage.
C1_ResetErasesEntry ==
  (SettledAfter({"resetProgress"}) /\ last.pre # DefaultState)
    => /\ index = 0 /\ missedIds = <<>> /\ ~reviewMode /\ reviewIndex = 0
       /\ ~flipped
       /\ progressStore = Absent

\* ------------------------------------------------------------------ C2
\* C2: an Answer, by key or by pointer, on a current card advances the
\* sequence active when it is given: in review mode (missed non-empty)
\* reviewPosition moves by one modulo the queue length and position stays;
\* outside review mode position moves by one modulo the deck length and
\* reviewPosition stays.
AnswerAdvancesActive ==
  IF last.pre.reviewMode /\ Len(last.pre.missedIds) > 0
    THEN /\ reviewIndex = (last.pre.reviewIndex + 1) % Len(last.pre.missedIds)
         /\ index = last.pre.index
    ELSE /\ index = (last.pre.index + 1) % Len(last.deck)
         /\ reviewIndex = last.pre.reviewIndex

C2_AnswerAdvancesActiveSequence ==
  (JustHandled(AnswerOps) /\ last.card # NoCard) => AnswerAdvancesActive

\* ------------------------------------------------------------------ C3
\* C3: with a non-empty deck and outside review mode the current card is
\* always a card of the deck, whatever integer position was persisted; with
\* an empty deck Advance changes nothing.
C3_CurrentCardAlwaysValid ==
  Settled =>
    /\ (Len(deck) > 0 /\ ~reviewMode) => CardNow \in IdsOf(deck)
    /\ Len(deck) = 0 => handleAdvance(deck, Fresh, State) = State

C4_WitnessPruned ==
  /\ SettledAfter({"reload"})
  /\ deck # last.deck
  /\ Len(missedIds) > 0
  /\ Len(missedIds) < Len(last.pre.missedIds)

\* ------------------------------------------------------------------ C5
\* C5: when missed becomes empty in review mode (the last missed card is
\* answered known, the load prunes every entry, or the loaded record has
\* review mode on and no missed card), reviewMode is forced to false and
\* reviewPosition to 0; so every settled state in review mode has a missed
\* card.
C5_EmptyQueueEndsReview ==
  Settled =>
    /\ reviewMode => Len(missedIds) > 0
    /\ (last.op \in AnswerOps \cup LoadOps /\ last.pre.reviewMode
          /\ missedIds = <<>>)
         => (~reviewMode /\ reviewIndex = 0)

C5_Witness ==
  /\ SettledAfter(AnswerOps)
  /\ last.known /\ last.pre.reviewMode /\ Len(last.pre.missedIds) = 1
  /\ missedIds = <<>> /\ ~reviewMode /\ reviewIndex = 0

\* A load whose record has review mode on and loses every entry to pruning.
C5_WitnessPruned ==
  /\ SettledAfter(LoadOps)
  /\ last.pre.reviewMode /\ Len(last.pre.missedIds) > 0
  /\ missedIds = <<>> /\ ~reviewMode

\* ------------------------------------------------------------------ C6
\* C6: Answer(known = true) on the current card c leaves missed unchanged
\* when c.id is not in it, and otherwise takes out exactly that id, every
\* other id staying in its previous relative order.
C6_KnownRemovesExactlyThatId ==
  (JustHandled(AnswerOps) /\ last.known /\ last.card # NoCard) =>
    /\ ~Includes(last.pre.missedIds, last.card)
         => missedIds = last.pre.missedIds
    /\ ~Includes(missedIds, last.card)
    /\ missedIds = Without(last.pre.missedIds, last.card)

C6_Witness ==
  /\ JustHandled(AnswerOps) /\ last.known
  /\ Includes(last.pre.missedIds, last.card)
  /\ Len(last.pre.missedIds) = 3 /\ last.pre.missedIds[2] = last.card
  /\ Len(missedIds) = 2

\* ------------------------------------------------------------------ C7
\* C7: Answer(known = false) on the current card c appends c.id to the end
\* of missed when it is not there and leaves missed unchanged when it is, so
\* a card missed twice has one entry, where its first miss put it.
C7_UnknownAppendsOnce ==
  (JustHandled(AnswerOps) /\ ~last.known /\ last.card # NoCard) =>
    /\ IF Includes(last.pre.missedIds, last.card)
         THEN missedIds = last.pre.missedIds
         ELSE missedIds = last.pre.missedIds \o <<last.card>>
    /\ Count(last.pre.missedIds, last.card) <= 1
         => Count(missedIds, last.card) = 1

\* The same card is answered unknown again: it is in missed already, and
\* not at the end.
C7_Witness ==
  /\ JustHandled(AnswerOps) /\ ~last.known
  /\ Len(last.pre.missedIds) = 2 /\ last.pre.missedIds[1] = last.card
  /\ missedIds = last.pre.missedIds

\* ------------------------------------------------------------------ C8
\* C8: no card id occurs more than once in missed, whatever record was
\* persisted (read here in the states where the effects have run).
C8_MissedHasNoDuplicates ==
  Settled => \A i, j \in 1..Len(missedIds) : missedIds[i] = missedIds[j] => i = j

\* ------------------------------------------------------------------ C9
\* C9: in every settled state missed holds only ids of the deck; a load
\* keeps exactly the persisted entries whose id is in the deck, in their
\* order.
C9_MissedWithinDeck ==
  Settled =>
    /\ \A i \in 1..Len(missedIds) : missedIds[i] \in IdsOf(deck)
    /\ last.op \in LoadOps
         => missedIds = KeepIn(last.pre.missedIds, IdsOf(deck))

C9_Witness ==
  /\ SettledAfter(LoadOps)
  /\ Includes(last.pre.missedIds, GoneId)
  /\ Len(missedIds) > 0

\* ----------------------------------------------------------------- C10
\* C10 as stated: a persisted position p >= len(deck) > 0 outside review
\* mode settles on the deck card at index p mod len(deck).
C10_StoredPositionWraps ==
  (SettledAfter(LoadOps) /\ Len(deck) > 0 /\ ~last.pre.reviewMode
     /\ last.pre.index >= Len(deck))
    => CardNow = deck[(last.pre.index % Len(deck)) + 1]

\* C10 as the code has it: the first render reads the deck at p mod
\* len(deck), and the clamp effect then sets the position to 0, so the
\* settled current card is the first card of the deck.
C10_StoredPositionResets ==
  (last.op \in LoadOps /\ Len(deck) > 0 /\ ~last.pre.reviewMode
     /\ last.pre.index >= Len(deck))
    => /\ phase = "mount" => CardNow = deck[(last.pre.index % Len(deck)) + 1]
       /\ Settled => (index = 0 /\ CardNow = deck[1])

C10_Witness ==
  /\ SettledAfter(LoadOps) /\ ~last.pre.reviewMode
  /\ Len(deck) > 1
  /\ last.pre.index > Len(deck) /\ last.pre.index % Len(deck) # 0
  /\ CardNow = deck[1]

\* ----------------------------------------------------------------- C11
\* C11: in review mode with n >= 1 missed cards an Advance sets
\* reviewPosition to (reviewPosition + 1) mod n and changes neither missed
\* nor position; from the last entry it returns to the first missed card.
C11_ReviewAdvanceWraps ==
  (JustHandled({"clickAdvance"}) /\ last.pre.reviewMode
     /\ Len(last.pre.missedIds) >= 1)
    => LET n == Len(last.pre.missedIds)
       IN  /\ reviewIndex = (last.pre.reviewIndex + 1) % n
           /\ missedIds = last.pre.missedIds
           /\ index = last.pre.index
           /\ last.pre.reviewIndex = n - 1
                => (reviewIndex = 0 /\ CardNow = missedIds[1])

\* The second Advance over missed = [a, b]: back on a.
C11_Witness ==
  /\ JustHandled({"clickAdvance"}) /\ last.pre.reviewMode
  /\ Len(last.pre.missedIds) = 2 /\ last.pre.reviewIndex = 1
  /\ last.card = missedIds[2]
  /\ reviewIndex = 0 /\ CardNow = missedIds[1]

\* ----------------------------------------------------------------- C12
KeyOps == {"keyIgnored", "keyAnswer", "keyFlip", "keySound"}

\* C12: with an empty deck CurrentCard is none and Flip, Answer (known or
\* unknown), Advance and PlaySound are no-ops: the handlers return the state
\* they were given, start no audio, and a key press leaves position, missed,
\* reviewMode, reviewPosition, flipped and the persisted record unchanged.
C12_EmptyDeckNoOps ==
  Len(deck) = 0 =>
    /\ CardNow = NoCard
    /\ handleFlip(Fresh, State) = State
    /\ \A known \in BOOLEAN :
         /\ handleAnswer(deck, Fresh, known, State) = State
         /\ ~answerNewArray(Fresh, known, State)
    /\ handleAdvance(deck, Fresh, State) = State
    /\ playSound(Fresh) = NoCard
    /\ \A ev \in KeyEvents :
         /\ handleKey(deck, Fresh, ev, FALSE, State) = State
         /\ ~keyNewArray(Fresh, ev, FALSE, State)
    /\ JustHandled(KeyOps)
         => /\ State = last.pre
            /\ last.sound = NoCard
            /\ phase = "idle"
            /\ progressStore = progressPayload(last.pre)

\* The known-answer key was pressed on the empty deck.
C12_Witness ==
  /\ Len(deck) = 0
  /\ JustHandled({"keyAnswer"}) /\ last.known
  /\ State = last.pre /\ phase = "idle"

\* ----------------------------------------------------------------- C13
\* The keys of the Map cardById is built from.
cardByIdKeys == {cards[k].id : k \in 1..Len(cards)}

\* C13: for every raw deck (id and note id each absent, blank or any
\* string, equal strings and strings of the form card-k included) the
\* normalizer gives every card a non-empty id and no two cards the same id.
C13_NormalizedIdsUnique ==
  cards # <<>> =>
    /\ \A k \in 1..Len(cards) : cards[k].id # <<>>
    /\ \A j, k \in 1..Len(cards) : j # k => cards[j].id # cards[k].id
    /\ Cardinality(cardByIdKeys) = Len(cards)

\* ----------------------------------------------------------------- C14
\* The first render of a page load: storage is still as it was found.
JustLoaded == JustHandled(LoadOps)

\* C14 as stated: an absent, unreadable or unparseable entry loads as the
\* default state, and in a parsed entry every missing or wrong-typed field
\* takes its default: position and reviewPosition 0, missed empty, reviewMode
\* false.
C14_WrongTypedFieldsDefault ==
  JustLoaded =>
    LET f == progressStore.f
    IN  /\ progressStore.kind # "json" => State = DefaultState
        /\ f.index.t # "num" => index = 0
        /\ f.reviewIndex.t # "num" => reviewIndex = 0
        /\ f.missedIds.t # "list" => missedIds = <<>>
        /\ f.reviewMode \notin {"true", "false"} => ~reviewMode

\* C14 (amended): as above, except that reviewMode is loaded as the
\* truthiness of what is stored: false when it is missing or falsy, true for
\* any other value, boolean or not.  Well-typed fields load as stored, a
\* stored list without its falsy entries; flipped starts false.
C14_LoadNeverFails ==
  JustLoaded =>
    LET f == progressStore.f
    IN  /\ progressStore.kind # "json" => State = DefaultState
        /\ index = IF f.index.t = "num" THEN f.index.n ELSE 0
        /\ reviewIndex = IF f.reviewIndex.t = "num" THEN f.reviewIndex.n ELSE 0
        /\ missedIds = IF f.missedIds.t = "list"
                         THEN Without(f.missedIds.l, Falsy) ELSE <<>>
        /\ reviewMode = (f.reviewMode \in {"true", "truthy"})
        /\ ~flipped
        /\ phase = "mount"

\* A parsed entry whose four fields are all of the wrong type, reviewMode a
\* truthy non-boolean.
C14_Witness ==
  /\ JustLoaded
  /\ progressStore = Json([index |-> NotANumber, missedIds |-> NotAList,
                           reviewMode |-> "truthy",
                           reviewIndex |-> NotANumber])
  /\ index = 0 /\ reviewIndex = 0 /\ missedIds = <<>> /\ reviewMode

\* An entry JSON.parse throws on.
C14_WitnessCorrupt ==
  JustLoaded /\ progressStore = Corrupt /\ State = DefaultState

\* ----------------------------------------------------------------- C15
\* C15: in every settled state the persisted record (position, missed,
\* reviewMode, reviewPosition) equals the in-memory Session State, and
\* flipped is never a field of the persisted record.
C15_StoredEqualsMemory ==
  /\ "flipped" \notin DOMAIN progressStore.f
  /\ Settled =>
       /\ progressStore.kind = "json"
       /\ progressStore.f =
            [index |-> Num(index), missedIds |-> List(missedIds),
             reviewMode |-> IF reviewMode THEN "true" ELSE "false",
             reviewIndex |-> Num(reviewIndex)]

\* An answer emptied the review queue, the reconcile effect left review
\* mode, and the record written after it says so.
C15_Witness ==
  /\ SettledAfter(AnswerOps) /\ last.passes >= 2
  /\ last.pre.reviewMode /\ ~reviewMode
  /\ last.pre.index > 0
  /\ progressStore.f.reviewMode = "false"
  /\ progressStore.f.index = Num(index)

\* The back face shows while the record is that of the front face.
C15_WitnessFlipped ==
  /\ SettledAfter({"clickFlip"}) /\ flipped /\ reviewMode /\ index > 0
  /\ progressStore.f.missedIds = List(missedIds)

\* ----------------------------------------------------------------- C16
\* C16: StartReview changes no field when missed is empty; otherwise it sets
\* reviewMode = true, reviewPosition = 0 and flipped = false, leaves position
\* and missed unchanged, and CurrentCard becomes the card with id missed[0].
C16_StartReview ==
  /\ Len(missedIds) = 0 => startReview(State) = State
  /\ JustHandled({"startReview"})
       => /\ Len(last.pre.missedIds) > 0
          /\ reviewMode /\ reviewIndex = 0 /\ ~flipped
          /\ index = last.pre.index
          /\ missedIds = last.pre.missedIds
          /\ CardNow = missedIds[1]

\* Review is started again from a flipped deck card, after an earlier
\* review was left at its second entry.
C16_Witness ==
  /\ JustHandled({"startReview"})
  /\ last.pre.reviewIndex # 0 /\ last.pre.flipped
  /\ last.card # missedIds[1]
  /\ reviewMode /\ reviewIndex = 0 /\ ~flipped /\ CardNow = missedIds[1]

\* ----------------------------------------------------------------- C17
\* C17: ExitReview sets reviewMode = false and changes nothing else: missed,
\* reviewPosition and position keep their values, also once the effects it
\* triggered have settled, and CurrentCard becomes the deck card at
\* position mod len(deck).
C17_ExitReviewFrame ==
  (last.op = "exitReview" /\ (last.passes = 0 \/ Settled))
    => /\ ~reviewMode
       /\ missedIds = last.pre.missedIds
       /\ reviewIndex = last.pre.reviewIndex
       /\ index = last.pre.index
       /\ CardNow = deck[(index % Len(deck)) + 1]

\* ----------------------------------------------------------------- C18
SettingOps == {"setShowGerman", "setShowEnglish"}

\* The settings record JSON.stringify writes for the two booleans.
StoredShown(g, e) ==
  [kind |-> "json",
   f |-> [showGermanSentence |-> IF g THEN "true" ELSE "false",
          showEnglishSentence |-> IF e THEN "true" ELSE "false"]]

\* C18: SetDisplayPreference changes only the named boolean and leaves the
\* other boolean and every Session State field unchanged; once it has
\* settled the persisted settings record equals the in-memory settings; no
\* session operation changes a setting; on load each boolean is true unless
\* its persisted value is the literal false.
C18_SettingsIndependent ==
  /\ last.op = "setShowGerman"
       => /\ showGermanSentence = ~last.shown[1]
          /\ showEnglishSentence = last.shown[2]
  /\ last.op = "setShowEnglish"
       => /\ showEnglishSentence = ~last.shown[2]
          /\ showGermanSentence = last.shown[1]
  /\ last.op \in SettingOps
       => /\ State = last.pre
          /\ progressStore = progressPayload(last.pre)
  /\ last.op \notin SettingOps \cup LoadOps
       => <<showGermanSentence, showEnglishSentence>> = last.shown
  /\ Settled
       => settingsStore = StoredShown(showGermanSentence, showEnglishSentence)
  /\ JustLoaded
       => /\ showGermanSentence
               = ~(settingsStore.kind = "json"
                     /\ settingsStore.f.showGermanSentence = "false")
          /\ showEnglishSentence
               = ~(settingsStore.kind = "json"
                     /\ settingsStore.f.showEnglishSentence = "false")

\* In the middle of a session the German sentence is switched off while the
\* English one stays on, and the record says so.
C18_Witness ==
  /\ SettledAfter({"setShowGerman"})
  /\ last.shown = <<TRUE, TRUE>>
  /\ ~showGermanSentence /\ showEnglishSentence
  /\ settingsStore = StoredShown(FALSE, TRUE)
  /\ index > 0 /\ Len(missedIds) > 0

\* A page load over a record holding false and a falsy non-boolean.
C18_WitnessLoad ==
  /\ JustLoaded
  /\ settingsStore.kind = "json"
  /\ settingsStore.f.showGermanSentence = "false"
  /\ settingsStore.f.showEnglishSentence = "falsy"
  /\ ~showGermanSentence /\ showEnglishSentence

\* ----------------------------------------------------------------- C19
\* C19: in review mode no missed card is skipped by an answer: when the
\* current card c is answered as known, the current card after the answer
\* and its advance is the entry that followed c in the queue, or the first
\* remaining entry when c was the last one.
C19_NoMissedCardSkipped ==
  (SettledAfter({"clickAnswer"}) /\ last.known /\ last.pre.reviewMode
     /\ Len(last.pre.missedIds) > 1)
    => LET q == last.pre.missedIds
           i == JsRem(last.pre.reviewIndex, Len(q)) + 1
       IN  /\ q[i] = last.card
           /\ CardNow = IF i < Len(q) THEN q[i + 1] ELSE q[1]

\* ----------------------------------------------------------------- C20
CardChangingOps ==
  {"clickAdvance", "clickAnswer", "keyAnswer", "startReview", "exitReview",
   "resetProgress", "reload"}

\* C20: the back face is only shown for a card the user flipped: after
\* every operation (Advance, Answer, StartReview, ExitReview, ResetProgress,
\* a page load) and the effects it triggers (forced exit from review,
\* position clamp), if CurrentCard is a different card than before then
\* flipped is false.
C20_BackOnlyForFlippedCard ==
  (last.op \in CardChangingOps /\ CardNow # NoCard /\ CardNow # last.card)
    => ~flipped

\* ----------------------------------------------------------------- C21
\* C21: in every settled state with reviewMode true, 0 <= reviewPosition <
\* len(missed), and the review-mode CurrentCard is a card of the deck, never
\* none.
C21_ReviewPositionInRange ==
  (Settled /\ reviewMode)
    => /\ 0 <= reviewIndex /\ reviewIndex < Len(missedIds)
       /\ CardNow \in IdsOf(deck)

\* ----------------------------------------------------------------- C22
\* A run of n known answers, started in review mode on a queue of n >= 1
\* entries, has settled.
RunComplete ==
  /\ Settled /\ streak.on
  /\ streak.shown # <<>> /\ Len(streak.shown) = Len(streak.queue)

\* C22: review terminates: from a state with reviewMode true and missed of
\* length n >= 1, after exactly n known answers (by key or by pointer, and
\* nothing else) every card that was in missed has been shown once, missed
\* is empty and reviewMode is false.
C22_ReviewTerminates ==
  RunComplete
    => /\ missedIds = <<>>
       /\ ~reviewMode
       /\ \A k \in 1..Len(streak.queue) :
            Count(streak.shown, streak.queue[k]) = 1

====
